---- MODULE Spec2Model ----
(***************************************************************************)
(* Liquibase-Generator (src/main.py): the entity scanner                   *)
(* parse_java_entity, the type mapper map_java_type_to_db_type, the four   *)
(* change generators and main.                                             *)
(*                                                                         *)
(* Text is modelled at token granularity.  A line of the input file is a   *)
(* sequence of tokens (strings); a word token stands for a run of \w       *)
(* characters, " " for one whitespace character, every other token for     *)
(* the punctuation it spells.  A path is a sequence of tokens in which     *)
(* ".java" and "/" are tokens of their own.  A file's content is a         *)
(* sequence of lines.  Python's None is the empty tuple, a present value   *)
(* x is the one-element tuple <<x>>.                                       *)
(***************************************************************************)
EXTENDS Integers, Sequences, FiniteSets, TLC

\* ---------------------------------------------------------------- bounds
MaxLines == 4
MaxMainLines == 3
MaxCols == 2

\* ------------------------------------------------------- optional values
None == <<>>
Some(x) == <<x>>

Min(S) == CHOOSE m \in S : \A n \in S : m <= n

\* ------------------------------------------------------------ characters
\* \w : the tokens that are runs of word characters
WordTokens ==
  {"private", "protected", "public", "static", "int", "long", "Long",
   "String", "id", "name", "getId", "Employee", "Dept", "nullable", "false"}

IsWord(t) == t \in WordTokens

\* \s
IsSpace(t) == t = " "

\* the token at position p of s, "" past either end
At(s, p) == IF p \in 1..Len(s) THEN s[p] ELSE ""

RECURSIVE SkipSpaces(_, _)
\* \s* / \s+ from position p: the position after the run of whitespace
SkipSpaces(s, p) == IF IsSpace(At(s, p)) THEN SkipSpaces(s, p + 1) ELSE p

RECURSIVE SkipWord(_, _)
\* \w+ from position p: the position after the run of word characters
SkipWord(s, p) == IF IsWord(At(s, p)) THEN SkipWord(s, p + 1) ELSE p

RECURSIVE Text(_, _, _)
\* the text of tokens a..b of s (match.group)
Text(s, a, b) == IF a > b THEN "" ELSE s[a] \o Text(s, a + 1, b)

\* ------------------------------------------------------------- patterns
\* @Table\(name\s*=\s*"(.*?)"\)  and  @Column\(name\s*=\s*"(.*?)"\)
\* matched at position p; kw is "@Table(name" or "@Column(name".
AnnotationMatchAt(kw, s, p) ==
  LET q == SkipSpaces(s, p + 1)
      r == SkipSpaces(s, q + 1)
      closes == {e \in (r + 1)..Len(s) : s[e] = "\"" /\ At(s, e + 1) = ")"}
  IN IF At(s, p) = kw /\ At(s, q) = "=" /\ At(s, r) = "\"" /\ closes # {}
     THEN Some(Text(s, r + 1, Min(closes) - 1))
     ELSE None

\* (private|protected|public)\s+(\w+)\s+\w+;   group(2)
FieldMatchAt(s, p) ==
  LET q == SkipSpaces(s, p + 1)
      e == SkipWord(s, q)
      r == SkipSpaces(s, e)
      f == SkipWord(s, r)
  IN IF /\ At(s, p) \in {"private", "protected", "public"}
        /\ q > p + 1 /\ e > q /\ r > e /\ f > r
        /\ At(s, f) = ";"
     THEN Some(Text(s, q, e - 1))
     ELSE None

\* public\s+(\w+)\s+\w+\(\)   group(1)
MethodMatchAt(s, p) ==
  LET q == SkipSpaces(s, p + 1)
      e == SkipWord(s, q)
      r == SkipSpaces(s, e)
      f == SkipWord(s, r)
  IN IF /\ At(s, p) = "public"
        /\ q > p + 1 /\ e > q /\ r > e /\ f > r
        /\ At(s, f) = "(" /\ At(s, f + 1) = ")"
     THEN Some(Text(s, q, e - 1))
     ELSE None

\* re.search: the leftmost match in the line, None when there is none
TableSearch(s) ==
  LET ps == {p \in 1..Len(s) : AnnotationMatchAt("@Table(name", s, p) # None}
  IN IF ps = {} THEN None ELSE AnnotationMatchAt("@Table(name", s, Min(ps))

ColumnSearch(s) ==
  LET ps == {p \in 1..Len(s) : AnnotationMatchAt("@Column(name", s, p) # None}
  IN IF ps = {} THEN None ELSE AnnotationMatchAt("@Column(name", s, Min(ps))

FieldSearch(s) ==
  LET ps == {p \in 1..Len(s) : FieldMatchAt(s, p) # None}
  IN IF ps = {} THEN None ELSE FieldMatchAt(s, Min(ps))

MethodSearch(s) ==
  LET ps == {p \in 1..Len(s) : MethodMatchAt(s, p) # None}
  IN IF ps = {} THEN None ELSE MethodMatchAt(s, Min(ps))

\* Python truthiness of an optional string: None and "" are false
Truthy(v) == v # None /\ v[1] # ""

\* str() of an optional string, as an f-string interpolates it
Str(v) == IF v = None THEN "None" ELSE v[1]

\* ---------------------------------------------------------- type mapper
map_java_type_to_db_type_long_as_integer(java_type) ==
  CASE java_type = "String" -> "VARCHAR(255)"
    [] java_type = "int" -> "INTEGER"
    [] java_type = "Integer" -> "INTEGER"
    [] java_type = "long" -> "INTEGER"
    [] java_type = "Long" -> "BIGINT"
    [] java_type = "boolean" -> "BOOLEAN"
    [] java_type = "Boolean" -> "BOOLEAN"
    [] java_type = "Date" -> "TIMESTAMP"
    [] java_type = "BigDecimal" -> "DECIMAL(19,2)"
    [] OTHER -> "VARCHAR(255)"

\* type_mapping.get(java_type, 'VARCHAR(255)')
map_java_type_to_db_type(java_type) ==
  CASE java_type = "String" -> "VARCHAR(255)"
    [] java_type = "int" -> "INTEGER"
    [] java_type = "Integer" -> "INTEGER"
    [] java_type = "long" -> "BIGINT"
    [] java_type = "Long" -> "BIGINT"
    [] java_type = "boolean" -> "BOOLEAN"
    [] java_type = "Boolean" -> "BOOLEAN"
    [] java_type = "Date" -> "TIMESTAMP"
    [] java_type = "BigDecimal" -> "DECIMAL(19,2)"
    [] OTHER -> "VARCHAR(255)"

\* ------------------------------------------------------ change generators
\* Each generator returns <<query, rollback_query>>; a fragment is the
\* sequence of its lines (the text between two "\n").
ColumnElement(column_name, db_type) ==
  "    <column name=\"" \o column_name \o "\" type=\"" \o db_type \o "\"/>"

generate_add_column_query(tn, column_name, column_type) ==
  LET db == map_java_type_to_db_type(column_type)
  IN << << "<addColumn tableName=\"" \o Str(tn) \o "\">",
           ColumnElement(column_name, db),
           "</addColumn>" >>,
        << "<dropColumn tableName=\"" \o Str(tn) \o "\" columnName=\""
             \o column_name \o "\"/>" >> >>

generate_delete_column_query(tn, column_name) ==
  << << "<dropColumn tableName=\"" \o Str(tn) \o "\" columnName=\""
          \o column_name \o "\"/>" >>,
     << "<addColumn tableName=\"" \o Str(tn) \o "\">",
        ColumnElement(column_name, "VARCHAR(255)"),
        "</addColumn>" >> >>

ModifyElement(tn, column_name, db_type) ==
  "<modifyDataType tableName=\"" \o Str(tn) \o "\" columnName=\""
    \o column_name \o "\" newDataType=\"" \o db_type \o "\"/>"

generate_modify_column_query_rollback_to_new_type(tn, column_name, column_type) ==
  LET db == map_java_type_to_db_type(column_type)
  IN << << ModifyElement(tn, column_name, db) >>,
        << ModifyElement(tn, column_name, db) >> >>

generate_modify_column_query(tn, column_name, column_type) ==
  LET db == map_java_type_to_db_type(column_type)
  IN << << ModifyElement(tn, column_name, db) >>,
        << ModifyElement(tn, column_name, "VARCHAR(255)") >> >>

generate_create_table_query_unmapped_type(tn, cols) ==
  << << "<createTable tableName=\"" \o Str(tn) \o "\">" >>
       \o [k \in 1..Len(cols) |-> ColumnElement(cols[k][1], cols[k][2])]
       \o << "</createTable>" >>,
     << "<dropTable tableName=\"" \o Str(tn) \o "\"/>" >> >>

generate_create_table_query(tn, cols) ==
  << << "<createTable tableName=\"" \o Str(tn) \o "\">" >>
       \o [k \in 1..Len(cols) |->
             ColumnElement(cols[k][1], map_java_type_to_db_type(cols[k][2]))]
       \o << "</createTable>" >>,
     << "<dropTable tableName=\"" \o Str(tn) \o "\"/>" >> >>

\* -------------------------------------------------------- document writer
\* args.file.replace('.java', '_liquibase_query.xml'): str.replace
\* substitutes every occurrence
OutputPath(path) ==
  [k \in 1..Len(path) |->
     IF path[k] = ".java" THEN "_liquibase_query.xml" ELSE path[k]]

\* the text written by the file.write calls, as lines
Document(q, rb) ==
  << << "<?xml version=\"1.0\" encoding=\"UTF-8\"?>" >>,
     << "<databaseChangeLog xmlns=\"http://www.liquibase.org/xml/ns/dbchangelog\"" >>,
     << "                  xmlns:xsi=\"http://www.w3.org/2001/XMLSchema-instance\"" >>,
     << "                  xsi:schemaLocation=\"http://www.liquibase.org/xml/ns/dbchangelog" >>,
     << "                  http://www.liquibase.org/xml/ns/dbchangelog/dbchangelog-3.8.xsd\">" >>,
     << >>,
     << "    <changeSet id=\"1\" author=\"generated\">" >> >>
  \o << << "        ", q[1] >> >>
  \o [k \in 1..(Len(q) - 1) |-> << q[k + 1] >>]
  \o << << "        <rollback>" >>, << "            ", rb[1] >> >>
  \o [k \in 1..(Len(rb) - 1) |-> << rb[k + 1] >>]
  \o << << "        </rollback>" >>,
        << "    </changeSet>" >>,
        << "</databaseChangeLog>" >> >>

\* ------------------------------------------------------------ file system
\* the directory a path lies in: the tokens before its last "/", the
\* working directory <<>> when it has none
Parent(path) ==
  LET slashes == {k \in 1..Len(path) : path[k] = "/"}
  IN IF slashes = {} THEN <<>>
     ELSE SubSeq(path, 1, (CHOOSE m \in slashes : \A n \in slashes : n <= m) - 1)

\* ------------------------------------------------------------------ state
VARIABLES
  file,            \* args.file, a path
  add_column,      \* args.add_column: None or Some(<<name, type>>)
  delete_column,   \* args.delete_column: None or Some(name)
  modify_column,   \* args.modify_column: None or Some(<<name, type>>)
  disk,            \* the regular files: path -> content
  dirs,            \* the directories that exist
  lines,           \* parse_java_entity: file.readlines()
  i,               \* parse_java_entity: the loop index (0-based)
  table_name,      \* None or Some(name)
  columns,         \* sequence of <<column_name, column_type>>
  java_type,       \* the argument of a direct map_java_type_to_db_type call
  db_type,         \* its result
  mode,            \* the branch of main (or the function called directly)
  query,           \* forward fragment, a sequence of lines
  rollback_query,  \* rollback fragment, a sequence of lines
  output_file,     \* the derived output path
  stdout,          \* the lines printed
  exc,             \* the exception in flight: None or Some(<<type, raised in>>)
  writes,          \* how many times the output file was opened and written
  pc               \* the position in the code

vars ==
  << file, add_column, delete_column, modify_column, disk, dirs, lines, i,
     table_name, columns, java_type, db_type, mode, query, rollback_query,
     output_file, stdout, exc, writes, pc >>

argv == << file, add_column, delete_column, modify_column >>
scan == << lines, i, table_name, columns >>
gen == << mode, query, rollback_query, output_file >>
pure == << java_type, db_type >>

\* ----------------------------------------------------------------- inputs
TableEmployee == << "@Table(name", " ", "=", " ", "\"", "Employee", "\"", ")" >>
TableDept == << "@Table(name", "=", "\"", "Dept", "\"", ")" >>
TableEmpty == << "@Table(name", " ", "=", " ", "\"", "\"", ")" >>
ColumnId == << " ", "@Column(name", " ", "=", " ", "\"", "id", "\"", ")" >>
ColumnName == << " ", "@Column(name", "=", "\"", "name", "\"", ")" >>
ColumnNullable ==
  << " ", "@Column(name", " ", "=", " ", "\"", "id", "\"", ",", " ",
     "nullable", " ", "=", " ", "false", ")" >>
FieldInt == << " ", "private", " ", "int", " ", "id", ";" >>
FieldString == << " ", "protected", " ", " ", "String", " ", "name", ";" >>
FieldStatic == << " ", "private", " ", "static", " ", "long", " ", "id", ";" >>
GetterLong == << " ", "public", " ", "Long", " ", "getId", "(", ")", " ", "{" >>
GetterPrivate == << " ", "private", " ", "Long", " ", "getId", "(", ")", " ", "{" >>

\* the lines an entity file is made of
LinePool ==
  { TableEmployee, TableDept, TableEmpty, ColumnId, ColumnName,
    ColumnNullable, FieldInt, FieldString, FieldStatic, GetterLong,
    GetterPrivate }

\* the lines of the files main is run on
MainLinePool == { TableEmployee, TableEmpty, ColumnId, FieldInt }

Files(pool, n) == UNION { [1..k -> pool] : k \in 0..n }

PathPool ==
  { << "Employee", ".java" >>,
    << "src", "/", "Employee", ".java" >>,
    << "app", ".java", ".d", "/", "Employee", ".java" >>,
    << "Employee", ".java", ".java" >>,
    << "entity", ".txt" >> }

\* a directory that may or may not exist besides those the input needs
OtherDirs == { << "app", "_liquibase_query.xml", ".d" >> }

TypePool ==
  { "String", "int", "Integer", "long", "Long", "boolean", "Boolean", "Date",
    "BigDecimal", "UUID", "string", "INT", "" }

ColumnPool == { "id", "name" } \X { "int", "Long", "String", "UUID" }

NoFiles == [p \in {} |-> << >>]

\* os.path.exists
Exists(path) == path \in DOMAIN disk \/ path \in dirs

Idle ==
  /\ lines = << >> /\ i = 0 /\ table_name = None /\ columns = << >>
  /\ java_type = "" /\ db_type = ""
  /\ mode = "none" /\ query = << >> /\ rollback_query = << >>
  /\ output_file = << >> /\ stdout = << >> /\ exc = None /\ writes = 0

\* a run of main: the command line and the file system it meets
Init ==
  /\ file \in PathPool
  /\ add_column \in {None, Some(<< "email", "String" >>), Some(<< "", "long" >>)}
  /\ delete_column \in {None, Some(""), Some("id")}
  /\ modify_column \in {None, Some(<< "id", "long" >>)}
  /\ \E kind \in {"absent", "file", "dir"}, extra \in SUBSET OtherDirs :
       /\ disk \in IF kind = "file"
                   THEN { [p \in {file} |-> c] : c \in Files(MainLinePool, MaxMainLines) }
                   ELSE { NoFiles }
       /\ dirs = CASE kind = "absent" -> { << >> } \cup extra
                   [] kind = "file" -> { << >>, Parent(file) } \cup extra
                   [] kind = "dir" -> { << >>, Parent(file), file } \cup extra
  /\ Idle
  /\ pc = "main"

\* a call of parse_java_entity on a readable file
InitScan ==
  /\ file = << "Employee", ".java" >>
  /\ add_column = None /\ delete_column = None /\ modify_column = None
  /\ disk \in { [p \in {file} |-> c] : c \in Files(LinePool, MaxLines) }
  /\ dirs = { << >> }
  /\ Idle
  /\ pc = "parse"

\* a call of one of the pure functions
InitGen ==
  /\ file = << >>
  /\ add_column \in { Some(<< "email", t >>) : t \in {"String", "long"} }
  /\ delete_column = Some("id")
  /\ modify_column \in { Some(<< "id", t >>) : t \in {"String", "long"} }
  /\ disk = NoFiles /\ dirs = { << >> }
  /\ lines = << >> /\ i = 0
  /\ table_name \in { Some("Employee"), Some("Dept") }
  /\ columns \in UNION { [1..k -> ColumnPool] : k \in 0..MaxCols }
  /\ java_type \in TypePool /\ db_type = ""
  /\ mode = "none" /\ query = << >> /\ rollback_query = << >>
  /\ output_file = << >> /\ stdout = << >> /\ exc = None /\ writes = 0
  /\ pc = "call"

\* --------------------------------------------------- parse_java_entity
\* with open(file_path, 'r') as file: lines = file.readlines()
OpenInput ==
  /\ pc = "parse"
  /\ IF file \in DOMAIN disk
     THEN /\ lines' = disk[file]
          /\ i' = 0 /\ table_name' = None /\ columns' = << >>
          /\ pc' = "scan"
          /\ UNCHANGED exc
     ELSE /\ exc' = Some(<< IF file \in dirs THEN "IsADirectoryError"
                                              ELSE "FileNotFoundError",
                            "parse_java_entity" >>)
          /\ pc' = "raised"
          /\ UNCHANGED scan
  /\ UNCHANGED << argv, disk, dirs, pure, gen, stdout, writes >>

\* one iteration of: for i, line in enumerate(lines)
ScanLine ==
  /\ pc = "scan" /\ i < Len(lines)
  /\ LET line == lines[i + 1]
         table_match == TableSearch(line)
         column_match == ColumnSearch(line)
         field_match == IF i + 1 < Len(lines) THEN FieldSearch(lines[i + 2])
                                               ELSE None
         \* lines[i + 1] of the method test is read without a bounds test
         raises == column_match # None /\ field_match = None
                     /\ ~(i + 1 < Len(lines))
         column_type == IF field_match # None THEN field_match
                                               ELSE MethodSearch(lines[i + 2])
     IN /\ table_name' = IF table_match # None THEN table_match ELSE table_name
        /\ IF raises
           THEN /\ exc' = Some(<< "IndexError", "parse_java_entity" >>)
                /\ pc' = "raised"
                /\ UNCHANGED << i, columns >>
           ELSE /\ columns' = IF column_match # None /\ Truthy(column_type)
                              THEN Append(columns,
                                          << column_match[1], column_type[1] >>)
                              ELSE columns
                /\ i' = i + 1
                /\ UNCHANGED << exc, pc >>
  /\ UNCHANGED << argv, disk, dirs, lines, pure, gen, stdout, writes >>

\* return table_name, columns
ScanReturn ==
  /\ pc = "scan" /\ i = Len(lines)
  /\ pc' = "returned"
  /\ UNCHANGED << argv, disk, dirs, scan, pure, gen, stdout, exc, writes >>

\* ------------------------------------------------------------------- main
PathText(path) == Text(path, 1, Len(path))

\* Python truthiness of an optional argument list (nargs=2)
ListTruthy(v) == v # None /\ Len(v[1]) > 0

\* if not os.path.exists(args.file): print(...); return
CheckExists ==
  /\ pc = "main"
  /\ IF Exists(file)
     THEN pc' = "parse" /\ UNCHANGED stdout
     ELSE /\ stdout' = Append(stdout,
                        << "Error: ", "File '" \o PathText(file) \o "' not found." >>)
          /\ pc' = "done"
  /\ UNCHANGED << argv, disk, dirs, scan, pure, gen, exc, writes >>

\* the if/elif/else over the directives, the generator call, and
\* output_file = args.file.replace(...)
Generate ==
  /\ pc = "returned"
  /\ IF ListTruthy(add_column)
     THEN LET r == generate_add_column_query(table_name, add_column[1][1],
                                             add_column[1][2])
          IN /\ mode' = "add-column"
             /\ query' = r[1] /\ rollback_query' = r[2]
             /\ output_file' = OutputPath(file)
             /\ pc' = "write" /\ UNCHANGED stdout
     ELSE IF Truthy(delete_column)
     THEN LET r == generate_delete_column_query(table_name, delete_column[1])
          IN /\ mode' = "delete-column"
             /\ query' = r[1] /\ rollback_query' = r[2]
             /\ output_file' = OutputPath(file)
             /\ pc' = "write" /\ UNCHANGED stdout
     ELSE IF ListTruthy(modify_column)
     THEN LET r == generate_modify_column_query(table_name, modify_column[1][1],
                                                modify_column[1][2])
          IN /\ mode' = "modify-column"
             /\ query' = r[1] /\ rollback_query' = r[2]
             /\ output_file' = OutputPath(file)
             /\ pc' = "write" /\ UNCHANGED stdout
     ELSE IF ~Truthy(table_name) \/ columns = << >>
     THEN /\ mode' = "create-table"
          /\ stdout' = Append(stdout,
                         << "Error: ", "Could not parse table name or columns." >>)
          /\ pc' = "done"
          /\ UNCHANGED << query, rollback_query, output_file >>
     ELSE LET r == generate_create_table_query(table_name, columns)
          IN /\ mode' = "create-table"
             /\ query' = r[1] /\ rollback_query' = r[2]
             /\ output_file' = OutputPath(file)
             /\ pc' = "write" /\ UNCHANGED stdout
  /\ UNCHANGED << argv, disk, dirs, scan, pure, exc, writes >>

\* with open(output_file, 'w') as file: file.write(...) ...; print(success)
WriteOutput ==
  /\ pc = "write"
  /\ IF output_file \in dirs \/ Parent(output_file) \notin dirs
     THEN /\ exc' = Some(<< IF output_file \in dirs THEN "IsADirectoryError"
                                                     ELSE "FileNotFoundError",
                            "open(output_file)" >>)
          /\ pc' = "raised"
          /\ UNCHANGED << disk, stdout, writes >>
     ELSE /\ disk' = [p \in DOMAIN disk \cup {output_file} |->
                        IF p = output_file THEN Document(query, rollback_query)
                                           ELSE disk[p]]
          /\ writes' = writes + 1
          /\ stdout' = Append(stdout,
                         << "Liquibase XML created successfully: ",
                            PathText(output_file) >>)
          /\ pc' = "done"
          /\ UNCHANGED exc
  /\ UNCHANGED << argv, dirs, scan, pure, gen >>

\* except Exception as e: print(f"Error: {e}")
HandleException ==
  /\ pc = "raised"
  /\ stdout' = Append(stdout, << "Error: ", exc[1][1] >>)
  /\ pc' = "done"
  /\ UNCHANGED << argv, disk, dirs, scan, pure, gen, exc, writes >>

Next ==
  \/ CheckExists
  \/ OpenInput
  \/ ScanLine
  \/ ScanReturn
  \/ Generate
  \/ WriteOutput
  \/ HandleException

Spec == Init /\ [][Next]_vars

\* parse_java_entity called on its own: an exception leaves the function
NextScan ==
  \/ OpenInput
  \/ ScanLine
  \/ ScanReturn

SpecScan == InitScan /\ [][NextScan]_vars

\* ------------------------------------------- the pure functions, called
CallMap ==
  /\ pc = "call"
  /\ db_type' = map_java_type_to_db_type(java_type)
  /\ mode' = "map" /\ pc' = "called"
  /\ UNCHANGED << argv, disk, dirs, scan, java_type, query, rollback_query,
                  output_file, stdout, exc, writes >>

CallCreateTable ==
  /\ pc = "call"
  /\ LET r == generate_create_table_query(table_name, columns)
     IN query' = r[1] /\ rollback_query' = r[2]
  /\ mode' = "create-table" /\ pc' = "called"
  /\ UNCHANGED << argv, disk, dirs, scan, pure, output_file, stdout, exc,
                  writes >>

CallAddColumn ==
  /\ pc = "call"
  /\ LET r == generate_add_column_query(table_name, add_column[1][1],
                                        add_column[1][2])
     IN query' = r[1] /\ rollback_query' = r[2]
  /\ mode' = "add-column" /\ pc' = "called"
  /\ UNCHANGED << argv, disk, dirs, scan, pure, output_file, stdout, exc,
                  writes >>

CallDeleteColumn ==
  /\ pc = "call"
  /\ LET r == generate_delete_column_query(table_name, delete_column[1])
     IN query' = r[1] /\ rollback_query' = r[2]
  /\ mode' = "delete-column" /\ pc' = "called"
  /\ UNCHANGED << argv, disk, dirs, scan, pure, output_file, stdout, exc,
                  writes >>

CallModifyColumn ==
  /\ pc = "call"
  /\ LET r == generate_modify_column_query(table_name, modify_column[1][1],
                                           modify_column[1][2])
     IN query' = r[1] /\ rollback_query' = r[2]
  /\ mode' = "modify-column" /\ pc' = "called"
  /\ UNCHANGED << argv, disk, dirs, scan, pure, output_file, stdout, exc,
                  writes >>

NextGen ==
  \/ CallMap
  \/ CallCreateTable
  \/ CallAddColumn
  \/ CallDeleteColumn
  \/ CallModifyColumn

SpecGen == InitGen /\ [][NextGen]_vars

\* ================================================================= claims

\* the content of the scanned file
Scanned == disk[file]

\* line k of ls is a column declaration whose following line gives a type
Typed(ls, k) ==
  /\ ColumnSearch(ls[k]) # None
  /\ k < Len(ls)
  /\ FieldSearch(ls[k + 1]) # None \/ MethodSearch(ls[k + 1]) # None

TypedPair(ls, k) ==
  << ColumnSearch(ls[k])[1],
     IF FieldSearch(ls[k + 1]) # None THEN FieldSearch(ls[k + 1])[1]
                                       ELSE MethodSearch(ls[k + 1])[1] >>

RECURSIVE ColumnsFrom(_, _)
\* the pairs of the typed column declarations of lines k.. of ls, in order
ColumnsFrom(ls, k) ==
  IF k > Len(ls) THEN << >>
  ELSE (IF Typed(ls, k) THEN << TypedPair(ls, k) >> ELSE << >>)
         \o ColumnsFrom(ls, k + 1)

\* the call of parse_java_entity is over
ScanOver == pc \in {"returned", "raised"}

\* C1: for every input file parse_java_entity returns, as its column list,
\* the (column_name, captured_type) pairs, in file order and without
\* deduplication, of the column declarations whose following line matches
\* the field pattern or else the accessor pattern; the Employee / id /
\* private int file yields (Employee, [(id, int)]).
C1_ReturnsTypedColumns ==
  ScanOver =>
    /\ pc = "returned"
    /\ columns = ColumnsFrom(Scanned, 1)
    /\ Scanned = << TableEmployee, ColumnId, FieldInt >> =>
         table_name = Some("Employee") /\ columns = << << "id", "int" >> >>

\* C2: a column declaration on the final line of the file is dropped
\* without an exception: the call returns normally, and a file of a table
\* declaration and a trailing column declaration yields that table name
\* and no columns.
C2_TrailingColumnDropped ==
  (ScanOver /\ Scanned # << >> /\ ColumnSearch(Scanned[Len(Scanned)]) # None) =>
    /\ pc = "returned"
    /\ exc = None
    /\ Scanned = << TableEmployee, ColumnId >> =>
         table_name = Some("Employee") /\ columns = << >>

\* the lines of ls that match the table declaration pattern
TableLines(ls) == {k \in 1..Len(ls) : TableSearch(ls[k]) # None}

\* C9: the table name returned by parse_java_entity is either absent (no
\* line matches the table declaration pattern) or a non-empty string, the
\* name captured from the last matching line.
C9_TableNameAbsentOrNonEmpty ==
  pc = "returned" =>
    IF TableLines(Scanned) = {}
    THEN table_name = None
    ELSE /\ table_name # None
         /\ table_name[1] # ""
         /\ table_name =
              TableSearch(Scanned[CHOOSE m \in TableLines(Scanned) :
                                    \A n \in TableLines(Scanned) : n <= m])

\* main is past its choice of mode
ModeChosen == mode # "none"

\* C5: the mode is add-column if an add-column directive is supplied, else
\* delete-column if a delete-column directive is supplied, else
\* modify-column if a modify-column directive is supplied, and create-table
\* exactly when none is supplied, for every argument value including an
\* empty column name.
C5_ModePrecedence ==
  ModeChosen =>
    mode = IF add_column # None THEN "add-column"
           ELSE IF delete_column # None THEN "delete-column"
           ELSE IF modify_column # None THEN "modify-column"
           ELSE "create-table"

\* the input path with only a trailing ".java" replaced
TrailingSuffixReplaced(path) ==
  SubSeq(path, 1, Len(path) - 1) \o << "_liquibase_query.xml" >>

\* C8: the output path written by main is the input path with only its
\* trailing .java suffix replaced by _liquibase_query.xml; everything
\* before that suffix, earlier occurrences of .java included, is unchanged.
C8_OnlyTrailingSuffixReplaced ==
  (writes > 0 /\ file[Len(file)] = ".java") =>
    output_file = TrailingSuffixReplaced(file)

\* C10: no run of main modifies the input file: whenever output is written
\* the output path differs from the input path and the scanned file still
\* has the content that was read.
C10_InputFileUntouched ==
  writes > 0 => output_file # file /\ disk[file] = lines

\* the last line printed is an error line / the success line
ErrorPrinted == Len(stdout) = 1 /\ stdout[1][1] = "Error: "
SuccessPrinted ==
  Len(stdout) = 1 /\ stdout[1][1] = "Liquibase XML created successfully: "

\* the scan raised
ScanRaised == exc # None /\ exc[1][2] = "parse_java_entity"

\* the cases in which a run reports an error: the input path does not
\* exist, the scan raised, or create-table mode lacks a table name or
\* columns
ErrorCase ==
  \/ mode = "none" /\ exc = None
  \/ ScanRaised
  \/ mode = "create-table" /\ (~Truthy(table_name) \/ columns = << >>)

\* C4: a run prints an error line and writes no output file when the input
\* path does not exist, when create-table mode has no table name or no
\* columns, or when scanning raises; every other run writes the output file
\* exactly once and prints the success line.
C4_ErrorOrWritten ==
  pc = "done" =>
    IF ErrorCase THEN ErrorPrinted /\ writes = 0
                 ELSE SuccessPrinted /\ writes = 1

\* C6: in delete-column and in modify-column mode the rollback fragment
\* names VARCHAR(255) for the column, whatever the table name, the column
\* name, the requested new type and the type the column has in the scanned
\* file.
C6_RollbackTypeIsDefault ==
  /\ mode = "delete-column" =>
       rollback_query =
         << "<addColumn tableName=\"" \o Str(table_name) \o "\">",
            "    <column name=\"" \o delete_column[1]
              \o "\" type=\"VARCHAR(255)\"/>",
            "</addColumn>" >>
  /\ mode = "modify-column" =>
       rollback_query =
         << "<modifyDataType tableName=\"" \o Str(table_name)
              \o "\" columnName=\"" \o modify_column[1][1]
              \o "\" newDataType=\"VARCHAR(255)\"/>" >>

\* a modify-column run on a file in which the column is an int
C6_Witness ==
  /\ pc = "done" /\ mode = "modify-column" /\ writes = 1
  /\ modify_column = Some(<< "id", "long" >>)
  /\ columns = << << "id", "int" >> >>

\* C3: for a table name T and a non-empty column list,
\* generate_create_table_query gives a forward fragment that opens a
\* createTable element for T and holds one column element per column, in
\* the order of the list, with the column's name and mapped type, and a
\* rollback fragment that is exactly a dropTable of T; the fragments are a
\* function of (table_name, columns) alone.
C3_CreateTableFragments ==
  (pc = "called" /\ mode = "create-table" /\ columns # << >>) =>
    /\ Len(query) = Len(columns) + 2
    /\ query[1] = "<createTable tableName=\"" \o table_name[1] \o "\">"
    /\ \A k \in 1..Len(columns) :
         query[k + 1] =
           "    <column name=\"" \o columns[k][1] \o "\" type=\""
             \o map_java_type_to_db_type(columns[k][2]) \o "\"/>"
    /\ query[Len(query)] = "</createTable>"
    /\ rollback_query = << "<dropTable tableName=\"" \o table_name[1] \o "\"/>" >>

\* a call with two different columns
C3_Witness ==
  /\ pc = "called" /\ mode = "create-table"
  /\ table_name = Some("Employee")
  /\ columns = << << "name", "String" >>, << "id", "Long" >> >>
  /\ Len(query) = 4

\* the mapping as the documentation gives it
KnownTypes ==
  [ t \in { "String", "int", "Integer", "long", "Long", "boolean", "Boolean",
            "Date", "BigDecimal" } |->
      IF t = "String" THEN "VARCHAR(255)"
      ELSE IF t \in {"int", "Integer"} THEN "INTEGER"
      ELSE IF t \in {"long", "Long"} THEN "BIGINT"
      ELSE IF t \in {"boolean", "Boolean"} THEN "BOOLEAN"
      ELSE IF t = "Date" THEN "TIMESTAMP"
      ELSE "DECIMAL(19,2)" ]

\* C7: map_java_type_to_db_type maps String to VARCHAR(255), int and
\* Integer to INTEGER, long and Long to BIGINT, boolean and Boolean to
\* BOOLEAN, Date to TIMESTAMP, BigDecimal to DECIMAL(19,2), and every other
\* token, a known name in another letter case included, to VARCHAR(255).
C7_TypeMapping ==
  (pc = "called" /\ mode = "map") =>
    db_type = IF java_type \in DOMAIN KnownTypes THEN KnownTypes[java_type]
                                                  ELSE "VARCHAR(255)"

\* a call on a known name in another letter case
C7_Witness ==
  pc = "called" /\ mode = "map" /\ java_type = "string"
    /\ db_type = "VARCHAR(255)"

====
